---- MODULE Spec2Model ----
(***************************************************************************)
(* Model of src/misc/ideal.py: the circle-reflection computation of the    *)
(* (inf, inf, inf) hyperbolic tiling (compute_all_circles and the helpers  *)
(* it calls).                                                              *)
(*                                                                         *)
(* Numbers.  The program computes with IEEE complex numbers.  Here a       *)
(* complex number is an exact Gaussian rational (a + b*i)/d, kept as the   *)
(* record [a, b, d] in lowest terms with d > 0; d = 0 is numpy's nan.      *)
(* An angle is an index into a table of points of the unit circle with     *)
(* rational coordinates, so that cos, sin, the radius' square root and     *)
(* every matrix entry are exact.  No two points of the table are           *)
(* antipodal.                                                              *)
(*                                                                         *)
(* Lists.  Python lists are objects: heap[r] is the content of the list    *)
(* with reference r; circles, next_circles and the entries of result are   *)
(* references, so that aliasing (result[0] is circles) is part of the      *)
(* model.                                                                  *)
(***************************************************************************)
EXTENDS Integers, Sequences, FiniteSets, TLC

VARIABLES alpha, beta, gamma, depth, mA, mB, mC, circles, next_circles,
          result, heap, i, k, pc

vars == <<alpha, beta, gamma, depth, mA, mB, mC, circles, next_circles,
          result, heap, i, k, pc>>

(* ------------------------------ bounds -------------------------------- *)

MaxDepth == 2

\* depth arguments tried: one negative value and 0..MaxDepth
Depths == {-1} \cup (0 .. MaxDepth)

(* --------------------------- exact numbers ---------------------------- *)

Abs(n) == IF n < 0 THEN -n ELSE n

RECURSIVE GCD(_, _)
GCD(m, n) == IF n = 0 THEN m ELSE GCD(n, m % n)

NaN == [a |-> 0, b |-> 0, d |-> 0]

IsNaN(x) == x.d = 0

\* (a + b*i)/d in lowest terms with a positive denominator
Cx(a, b, d) ==
    IF d = 0 THEN NaN
    ELSE LET g == GCD(GCD(Abs(a), Abs(b)), Abs(d))
             s == IF d < 0 THEN -1 ELSE 1
         IN  [a |-> s * (a \div g), b |-> s * (b \div g), d |-> s * (d \div g)]

Re(x) == Cx(x.a, 0, x.d)

CAdd(x, y) == Cx(x.a * y.d + y.a * x.d, x.b * y.d + y.b * x.d, x.d * y.d)

CSub(x, y) == Cx(x.a * y.d - y.a * x.d, x.b * y.d - y.b * x.d, x.d * y.d)

CMul(x, y) == Cx(x.a * y.a - x.b * y.b, x.a * y.b + x.b * y.a, x.d * y.d)

conjugate(x) == Cx(x.a, -x.b, x.d)

\* abs(z)**2 : the squared modulus, a real number
AbsSq(x) == Cx(x.a * x.a + x.b * x.b, 0, x.d * x.d)

ZeroDivisionError == [exc |-> "ZeroDivisionError"]

IsExc(v) == "exc" \in DOMAIN v

\* numpy's division: a zero divisor gives nan (and a warning), no exception
NpDiv(x, y) ==
    IF IsNaN(x) \/ IsNaN(y) \/ (y.a = 0 /\ y.b = 0) THEN NaN
    ELSE Cx((x.a * y.a + x.b * y.b) * y.d, (x.b * y.a - x.a * y.b) * y.d,
            x.d * (y.a * y.a + y.b * y.b))

\* mutant: the division follows numpy, nan instead of an exception
CDiv_numpy(x, y) == NpDiv(x, y)

\* Python's complex division: a zero divisor raises ZeroDivisionError
CDiv(x, y) ==
    IF ~IsNaN(y) /\ y.a = 0 /\ y.b = 0 THEN ZeroDivisionError
    ELSE NpDiv(x, y)

ISqrt(n) == CHOOSE s \in 0 .. n : s * s = n

\* np.sqrt of a complex number whose value is real: the principal root,
\* real for x >= 0 and imaginary for x < 0
Sqrt(x) ==
    IF IsNaN(x) THEN NaN
    ELSE IF x.a >= 0 THEN Cx(ISqrt(x.a * x.d), 0, x.d)
    ELSE Cx(0, ISqrt((-x.a) * x.d), x.d)

One == Cx(1, 0, 1)

Two == Cx(2, 0, 1)

(* ------------------------------ angles -------------------------------- *)

\* Points of the unit circle with rational coordinates: 1, i, (-3-4i)/5,
\* (3-4i)/5.
Points == << Cx(1, 0, 1), Cx(0, 1, 1), Cx(-3, -4, 5), Cx(3, -4, 5) >>

Angles == DOMAIN Points

\* complex(np.cos(x), np.sin(x))
cis(x) == Points[x]

(* ------------------------------ matrices ------------------------------ *)

\* A 2x2 complex matrix is the record [m00, m01, m10, m11].
Matrix(p, q, r, s) == [m00 |-> p, m01 |-> q, m10 |-> r, m11 |-> s]

\* np.dot of two 2x2 matrices
dot(m, n) ==
    Matrix(CAdd(CMul(m.m00, n.m00), CMul(m.m01, n.m10)),
           CAdd(CMul(m.m00, n.m01), CMul(m.m01, n.m11)),
           CAdd(CMul(m.m10, n.m00), CMul(m.m11, n.m10)),
           CAdd(CMul(m.m10, n.m01), CMul(m.m11, n.m11)))

\* ndarray.conjugate(): element-wise
mconjugate(m) ==
    Matrix(conjugate(m.m00), conjugate(m.m01),
           conjugate(m.m10), conjugate(m.m11))

det(m) == CSub(CMul(m.m00, m.m11), CMul(m.m01, m.m10))

circle_to_matrix(z, r) ==
    Matrix(NpDiv(z, r), NpDiv(CSub(CMul(r, r), AbsSq(z)), r),
           NpDiv(One, r), NpDiv(CSub(Cx(0, 0, 1), conjugate(z)), r))

\* <<center, radius>>
matrix_to_circle(matrix) ==
    LET q == NpDiv(One, Re(matrix.m10))
    IN  << NpDiv(matrix.m00, matrix.m10), Cx(Abs(q.a), 0, q.d) >>

\* mutant: the circle's matrix is not conjugated
reflect_noconj(circle, mirror) == dot(mirror, dot(circle, mirror))

reflect(circle, mirror) == dot(mirror, dot(mconjugate(circle), mirror))

orthogonal_circle(x, y) ==
    LET z == cis(x)
        w == cis(y)
        center == CDiv(CMul(Two, CSub(z, w)),
                       CSub(CMul(z, conjugate(w)), CMul(w, conjugate(z))))
    IN  IF IsExc(center) THEN center
        ELSE circle_to_matrix(center,
                              Sqrt(CSub(CMul(center, conjugate(center)), One)))

(* ------------------------ compute_all_circles ------------------------- *)

\* mutant: mirror A is taken opposite the first vertex
MirrorA_opposite(al, be, ga) == orthogonal_circle(be, ga)

\* the three mirrors, from the three angle arguments
MirrorA(al, be, ga) == orthogonal_circle(al, be)

MirrorB(al, be, ga) == orthogonal_circle(be, ga)

MirrorC(al, be, ga) == orthogonal_circle(ga, al)

\* circles = [["A", mA], ["B", mB], ["C", mC]]
InitialCircles(a, b, c) == << <<"A", a>>, <<"B", b>>, <<"C", c>> >>

\* mutant: the branch for label "C" is missing
Emit_dropC(last_mirror, circle, a, b, c) ==
    (IF last_mirror = "A"
       THEN << <<"B", reflect(circle, b)>>, <<"C", reflect(circle, c)>> >>
       ELSE << >>)
    \o (IF last_mirror = "B"
       THEN << <<"C", reflect(circle, c)>>, <<"A", reflect(circle, a)>> >>
       ELSE << >>)

\* mutant: a node labelled "B" is reflected about its own mirror
Emit_self(last_mirror, circle, a, b, c) ==
    (IF last_mirror = "A"
       THEN << <<"B", reflect(circle, b)>>, <<"C", reflect(circle, c)>> >>
       ELSE << >>)
    \o (IF last_mirror = "B"
       THEN << <<"C", reflect(circle, c)>>, <<"B", reflect(circle, b)>> >>
       ELSE << >>)
    \o (IF last_mirror = "C"
       THEN << <<"A", reflect(circle, a)>>, <<"B", reflect(circle, b)>> >>
       ELSE << >>)

\* the body of the inner loop: what one node adds to next_circles
Emit(last_mirror, circle, a, b, c) ==
    (IF last_mirror = "A"
       THEN << <<"B", reflect(circle, b)>>, <<"C", reflect(circle, c)>> >>
       ELSE << >>)
    \o (IF last_mirror = "B"
       THEN << <<"C", reflect(circle, c)>>, <<"A", reflect(circle, a)>> >>
       ELSE << >>)
    \o (IF last_mirror = "C"
       THEN << <<"A", reflect(circle, a)>>, <<"B", reflect(circle, b)>> >>
       ELSE << >>)

\* mutant: the loop runs once more
InRange_inclusive(n, d) == n <= d

\* mutant: the loop stops one iteration early
InRange_short(n, d) == n + 1 < d

\* range(depth) still has an element after n completed iterations
InRange(n, d) == n < d

\* mutant: next_circles is the list being read, not a new one
NewList_alias(h, cur) == cur

\* a new list object: the reference it gets
NewList(h, cur) == Len(h) + 1

None == 0

\* a local that is not bound yet
NoMatrix == [unbound |-> TRUE]

Init ==
    /\ alpha \in Angles /\ beta \in Angles /\ gamma \in Angles
    /\ depth \in Depths
    /\ mA = NoMatrix /\ mB = NoMatrix /\ mC = NoMatrix
    /\ circles = None /\ next_circles = None
    /\ result = << >>
    /\ heap = << >>
    /\ i = 0 /\ k = 0
    /\ pc = "call"

\* lines 68-72, all three mirrors exist
Setup ==
    /\ pc = "call"
    /\ LET a == MirrorA(alpha, beta, gamma)
           b == MirrorB(alpha, beta, gamma)
           c == MirrorC(alpha, beta, gamma)
       IN  /\ ~IsExc(a) /\ ~IsExc(b) /\ ~IsExc(c)
           /\ mA' = a /\ mB' = b /\ mC' = c
           /\ heap' = Append(heap, InitialCircles(a, b, c))
    /\ circles' = Len(heap) + 1
    /\ result' = << Len(heap) + 1 >>
    /\ pc' = "for"
    /\ UNCHANGED <<alpha, beta, gamma, depth, next_circles, i, k>>

\* lines 68-70, one of the orthogonal_circle calls raises: the exception
\* leaves compute_all_circles and nothing is returned
SetupRaises ==
    /\ pc = "call"
    /\ \/ IsExc(MirrorA(alpha, beta, gamma))
       \/ IsExc(MirrorB(alpha, beta, gamma))
       \/ IsExc(MirrorC(alpha, beta, gamma))
    /\ pc' = "raised"
    /\ UNCHANGED <<alpha, beta, gamma, depth, mA, mB, mC, circles,
                   next_circles, result, heap, i, k>>

\* lines 74-75: the next iteration of the outer loop starts
ForNext ==
    /\ pc = "for"
    /\ InRange(i, depth)
    /\ next_circles' = NewList(heap, circles)
    /\ heap' = IF NewList(heap, circles) > Len(heap)
               THEN Append(heap, << >>) ELSE heap
    /\ k' = 1
    /\ pc' = "inner"
    /\ UNCHANGED <<alpha, beta, gamma, depth, mA, mB, mC, circles, result, i>>

\* lines 76-85: one iteration of the inner loop
Inner ==
    /\ pc = "inner"
    /\ k <= Len(heap[circles])
    /\ heap' = [heap EXCEPT ![next_circles] =
                   @ \o Emit(heap[circles][k][1], heap[circles][k][2],
                             mA, mB, mC)]
    /\ k' = k + 1
    /\ UNCHANGED <<alpha, beta, gamma, depth, mA, mB, mC, circles,
                   next_circles, result, i, pc>>

\* lines 87-88: the inner loop is exhausted
EndFor ==
    /\ pc = "inner"
    /\ k > Len(heap[circles])
    /\ circles' = next_circles
    /\ result' = Append(result, next_circles)
    /\ i' = i + 1
    /\ pc' = "for"
    /\ UNCHANGED <<alpha, beta, gamma, depth, mA, mB, mC, next_circles,
                   heap, k>>

\* line 90: range(depth) is exhausted
Return ==
    /\ pc = "for"
    /\ ~InRange(i, depth)
    /\ pc' = "returned"
    /\ UNCHANGED <<alpha, beta, gamma, depth, mA, mB, mC, circles,
                   next_circles, result, heap, i, k>>

Next == Setup \/ SetupRaises \/ ForNext \/ Inner \/ EndFor \/ Return

Spec == Init /\ [][Next]_vars

(* ------------------------------ helpers ------------------------------- *)

\* generation j (0-based) of the result
Gen(j) == heap[result[j + 1]]

Label(node) == node[1]

Circle(node) == node[2]

RECURSIVE Pow2(_)
Pow2(n) == IF n <= 0 THEN 1 ELSE 2 * Pow2(n - 1)

RECURSIVE SumSizes(_)
SumSizes(n) == IF n = 0 THEN 0 ELSE Len(heap[result[n]]) + SumSizes(n - 1)

\* number of nodes over all generations of the result
TotalNodes == SumSizes(Len(result))

PairwiseDistinct == alpha # beta /\ beta # gamma /\ gamma # alpha

\* every node of every list built so far
AllNodes == UNION { { heap[r][n] : n \in DOMAIN heap[r] } : r \in DOMAIN heap }

Entries(m) == << m.m00, m.m01, m.m10, m.m11 >>

\* m = s * n for some scalar s # 0
EqUpToScalar(m, n) ==
    /\ \A p \in 1 .. 4 : ~IsNaN(Entries(m)[p]) /\ ~IsNaN(Entries(n)[p])
    /\ \E p \in 1 .. 4 : Entries(m)[p] # Cx(0, 0, 1)
    /\ \E p \in 1 .. 4 : Entries(n)[p] # Cx(0, 0, 1)
    /\ \A p, q \in 1 .. 4 :
          CMul(Entries(m)[p], Entries(n)[q]) = CMul(Entries(m)[q], Entries(n)[p])

\* the boundary point at angle x lies on the circle of matrix m
OnCircle(m, x) ==
    LET cr == matrix_to_circle(m)
    IN  AbsSq(CSub(cr[1], cis(x))) = CMul(cr[2], cr[2])

\* the circle of matrix m is orthogonal to the unit circle: |c|^2 - r^2 = 1
Orthogonal(m) ==
    LET cr == matrix_to_circle(m)
    IN  CSub(AbsSq(cr[1]), CMul(cr[2], cr[2])) = One

MirrorOf(l) == IF l = "A" THEN mA ELSE IF l = "B" THEN mB ELSE mC

Successors(l) ==
    IF l = "A" THEN <<"B", "C">> ELSE IF l = "B" THEN <<"C", "A">>
    ELSE <<"A", "B">>

Built == pc \in {"for", "inner", "returned"}

(* ------------------------------- claims ------------------------------- *)

\* C1: for every depth d >= 0 and pairwise distinct angles the call returns
\* (it does not raise), and what it returns has exactly d+1 generations; for
\* d = 0 that is generation 0 alone, the mirrors labelled A, B, C in order.
C1_GenerationCount ==
    (depth >= 0 /\ PairwiseDistinct) =>
        /\ pc # "raised"
        /\ pc = "returned" =>
              /\ Len(result) = depth + 1
              /\ depth = 0 =>
                    Gen(0) = << <<"A", mA>>, <<"B", mB>>, <<"C", mC>> >>

C1_Witness == pc = "returned" /\ depth = 0 /\ PairwiseDistinct /\ Len(result) = 1

\* C2, as claimed: in the returned result generation 0 has 3 nodes and
\* generation j, 1 <= j <= d, has 3 * 2^(j-1) nodes.
C2_Original ==
    (pc = "returned" /\ depth >= 0) =>
        /\ Len(Gen(0)) = 3
        /\ \A j \in 1 .. depth : Len(Gen(j)) = 3 * Pow2(j - 1)

\* C2, amended: in the returned result generation j, 0 <= j <= d, has
\* 3 * 2^j nodes (3, 6, 12, ...).
C2_GenerationSizes ==
    (pc = "returned" /\ depth >= 0) =>
        \A j \in 0 .. depth : Len(Gen(j)) = 3 * Pow2(j)

C2_Witness == pc = "returned" /\ depth >= 2 /\ Len(Gen(1)) = 6

\* C3: the returned result holds 3 * (2^(d+1) - 1) nodes in all; for depth 2
\* the sizes are 3, 6, 12 and the total is 21.
C3_TotalNodes ==
    (pc = "returned" /\ depth >= 0) =>
        /\ TotalNodes = 3 * (Pow2(depth + 1) - 1)
        /\ depth = 2 =>
              /\ << Len(Gen(0)), Len(Gen(1)), Len(Gen(2)) >> = <<3, 6, 12>>
              /\ TotalNodes = 21

C3_Witness == pc = "returned" /\ depth = 2 /\ TotalNodes = 21

\* C4: a call with a negative depth does not return a result.
C4_NegativeDepthFails == depth < 0 => pc # "returned"

\* C5: every node of a generation emits exactly two children into the next
\* one, A -> (B, C), B -> (C, A), C -> (A, B); a child is its parent's circle
\* reflected about the mirror of the child's label, which is never the
\* parent's label.  It holds of the generations of the result and of the part
\* of the next generation built so far.
C5_ChildrenOf(parents, children, n) ==
    \A p \in 1 .. n :
        LET parent == parents[p]
            c1 == children[2 * p - 1]
            c2 == children[2 * p]
        IN  /\ << Label(c1), Label(c2) >> = Successors(Label(parent))
            /\ Label(c1) # Label(parent) /\ Label(c2) # Label(parent)
            /\ Circle(c1) = reflect(Circle(parent), MirrorOf(Label(c1)))
            /\ Circle(c2) = reflect(Circle(parent), MirrorOf(Label(c2)))

C5_SuccessorRule ==
    /\ \A j \in 1 .. Len(result) - 1 :
          /\ Len(heap[result[j + 1]]) = 2 * Len(heap[result[j]])
          /\ C5_ChildrenOf(heap[result[j]], heap[result[j + 1]],
                           Len(heap[result[j]]))
    /\ pc = "inner" =>
          /\ Len(heap[next_circles]) = 2 * (k - 1)
          /\ C5_ChildrenOf(heap[circles], heap[next_circles], k - 1)

C5_Witness ==
    /\ pc = "returned" /\ depth >= 2
    /\ \A l \in {"A", "B", "C"} : \E n \in DOMAIN Gen(1) : Label(Gen(1)[n]) = l

\* C6, as claimed: mirror A passes through the boundary points beta and
\* gamma, mirror B through gamma and alpha, mirror C through alpha and beta.
C6_Original ==
    Built =>
        /\ OnCircle(mA, beta) /\ OnCircle(mA, gamma)
        /\ OnCircle(mB, gamma) /\ OnCircle(mB, alpha)
        /\ OnCircle(mC, alpha) /\ OnCircle(mC, beta)

\* C6, amended: the node labelled A of generation 0 is the circle orthogonal
\* to the unit circle through alpha and beta, the one labelled B that
\* through beta and gamma, the one labelled C that through gamma and alpha;
\* a mirror passes through the third point only when it is not a third point.
C6_MirrorAssignment ==
    Built =>
        /\ Gen(0) = << <<"A", mA>>, <<"B", mB>>, <<"C", mC>> >>
        /\ Orthogonal(mA) /\ Orthogonal(mB) /\ Orthogonal(mC)
        /\ OnCircle(mA, alpha) /\ OnCircle(mA, beta)
        /\ OnCircle(mB, beta) /\ OnCircle(mB, gamma)
        /\ OnCircle(mC, gamma) /\ OnCircle(mC, alpha)
        /\ ~OnCircle(mA, gamma) /\ ~OnCircle(mB, alpha) /\ ~OnCircle(mC, beta)

C6_Witness == pc = "for" /\ i = 0 /\ PairwiseDistinct /\ OnCircle(mA, alpha)

\* C7: when two of the three angles coincide the call raises: it builds
\* no generation and returns nothing.
C7_DegenerateRaises ==
    ~PairwiseDistinct =>
        /\ pc \in {"call", "raised"}
        /\ result = << >> /\ heap = << >>

C7_Witness == pc = "raised" /\ alpha = beta /\ depth = 0 /\ result = << >>

\* C8: every circle matrix, of a mirror or of a reflected circle, has
\* determinant 1.
C8_DeterminantOne == \A node \in AllNodes : det(Circle(node)) = One

\* mirrors built by circle_to_matrix from a centre and a radius > 0, not
\* only those orthogonal to the unit circle
ProbeMirrors ==
    { circle_to_matrix(Cx(za, zb, 1), Cx(rn, 0, rd)) :
          za \in {0, 1}, zb \in {-1, 0, 2}, rn \in {1, 3}, rd \in {1, 2} }

\* C9: reflecting a circle twice about the same mirror gives the circle
\* back, up to a scalar factor: for every circle of the returned result,
\* about each of the three mirrors and about each mirror of ProbeMirrors.
C9_ReflectInvolution ==
    pc = "returned" =>
        \A node \in AllNodes : \A m \in {mA, mB, mC} \cup ProbeMirrors :
            EqUpToScalar(reflect(reflect(Circle(node), m), m), Circle(node))

C9_Witness ==
    /\ pc = "returned" /\ depth >= 1
    /\ \E node \in AllNodes : Circle(node) \notin {mA, mB, mC}

\* C10: a step of the generation loop leaves the mirrors, every generation
\* stored in the result and the generation being read unchanged; it writes
\* only the fresh list, which is not in the result while it is written and
\* is appended once it holds two children for each node read.
C10_Step ==
    (pc \in {"for", "inner"}) =>
        /\ mA' = mA /\ mB' = mB /\ mC' = mC
        /\ Len(result') >= Len(result)
        /\ \A j \in 1 .. Len(result) :
              /\ result'[j] = result[j]
              /\ heap'[result[j]] = heap[result[j]]
        /\ heap'[circles] = heap[circles]
        /\ \A r \in DOMAIN heap :
              (pc = "for" \/ r # next_circles) => heap'[r] = heap[r]
        /\ (pc = "inner" /\ pc' = "inner") =>
              \A j \in 1 .. Len(result') : result'[j] # next_circles'
        /\ Len(result') > Len(result) =>
              /\ result' = Append(result, next_circles)
              /\ Len(heap'[next_circles]) = 2 * Len(heap[circles])

C10_AppendOnly == [][C10_Step]_vars

C10_Witness ==
    /\ pc = "inner" /\ Len(result) >= 2 /\ k > 1
    /\ Len(heap[next_circles]) > 0 /\ result[1] # circles

====
